---- MODULE Spec2Model ----
(***************************************************************************)
(* A model of the process library: identity values (PackageId, ProcessId,   *)
(* Address) with their textual forms, the Request / Response builders with  *)
(* their terminal send operations, the inbound Message accessors and the    *)
(* blocking send-and-await call of a single-threaded process.               *)
(*                                                                         *)
(* Text is a sequence of one-character strings.  Option<T> is a sequence of *)
(* length 0 (None) or 1 (Some).  Result<T, E> is a record with field ok.    *)
(***************************************************************************)
EXTENDS Integers, Sequences, FiniteSets, TLC

\* ------------------------------------------------------------------ bounds

\* longest field text handed to PackageId::new / ProcessId::new / Address::new
MaxFieldLen == 1
\* longest raw text handed to a from_str
MaxTextLen == 5
\* longest raw text compared against a ProcessId
MaxCmpLen == 3

\* the characters of a text: one ordinary character and the two delimiters
Chars == {"a", ":", "@"}

RECURSIVE TextsOfLen(_)
TextsOfLen(n) ==
  IF n = 0 THEN {<<>>}
  ELSE {<<c>> \o t : c \in Chars, t \in TextsOfLen(n - 1)}

TextsUpTo(n) == UNION {TextsOfLen(k) : k \in 0..n}

FieldTexts == TextsUpTo(MaxFieldLen)
RawTexts == TextsUpTo(MaxTextLen)
CmpTexts == TextsUpTo(MaxCmpLen)

\* ------------------------------------------------------------------ Option / Result

None == <<>>
Some(v) == <<v>>
IsSome(o) == Len(o) = 1
IsNone(o) == Len(o) = 0
Unwrap(o) == o[1]

Ok(v) == [ok |-> TRUE, val |-> v]
Err(e) == [ok |-> FALSE, err |-> e]

\* ------------------------------------------------------------------ str::split, [..].join

\* position of the first occurrence of d in s, 0 when there is none
RECURSIVE FindFrom(_, _, _)
FindFrom(s, d, i) ==
  IF i > Len(s) THEN 0
  ELSE IF s[i] = d THEN i
  ELSE FindFrom(s, d, i + 1)

\* the items of the iterator input.split(d): never empty, "" yields one empty item
RECURSIVE Split(_, _)
Split(s, d) ==
  LET i == FindFrom(s, d, 1) IN
  IF i = 0 THEN <<s>>
  ELSE <<SubSeq(s, 1, i - 1)>> \o Split(SubSeq(s, i + 1, Len(s)), d)

\* segments.next() as the n-th call on a fresh iterator
NextSeg(segs, n) == IF n <= Len(segs) THEN Some(segs[n]) ELSE None

RECURSIVE Join(_, _)
Join(segs, d) ==
  IF Len(segs) = 0 THEN <<>>
  ELSE IF Len(segs) = 1 THEN segs[1]
  ELSE segs[1] \o <<d>> \o Join(Tail(segs), d)

\* ------------------------------------------------------------------ PackageId

PackageId_new(package_name, publisher_node) ==
  [package_name |-> package_name, publisher_node |-> publisher_node]

PackageId_from_str(input) ==
  LET segments == Split(input, ":") IN
  IF IsNone(NextSeg(segments, 1)) THEN Err("MissingField")
  ELSE IF IsNone(NextSeg(segments, 2)) THEN Err("MissingField")
  ELSE IF IsSome(NextSeg(segments, 3)) THEN Err("TooManyColons")
  ELSE Ok([package_name |-> segments[1], publisher_node |-> segments[2]])

PackageId_to_string(self) ==
  Join(<<self.package_name, self.publisher_node>>, ":")

\* ------------------------------------------------------------------ ProcessId

ProcessId_new(process_name, package_name, publisher_node) ==
  [process_name |-> process_name,
   package_name |-> package_name,
   publisher_node |-> publisher_node]

ProcessId_from_str_ColonsFirst(input) ==
  LET segments == Split(input, ":") IN
  IF Len(segments) # 3 THEN Err("TooManyColons")
  ELSE Ok([process_name |-> segments[1],
           package_name |-> segments[2],
           publisher_node |-> segments[3]])

ProcessId_from_str(input) ==
  LET segments == Split(input, ":") IN
  IF IsNone(NextSeg(segments, 1)) THEN Err("MissingField")
  ELSE IF IsNone(NextSeg(segments, 2)) THEN Err("MissingField")
  ELSE IF IsNone(NextSeg(segments, 3)) THEN Err("MissingField")
  ELSE IF IsSome(NextSeg(segments, 4)) THEN Err("TooManyColons")
  ELSE Ok([process_name |-> segments[1],
           package_name |-> segments[2],
           publisher_node |-> segments[3]])

ProcessId_to_string(self) ==
  Join(<<self.process_name, self.package_name, self.publisher_node>>, ":")

\* impl PartialEq for ProcessId
ProcessId_eq(self, other) ==
  /\ self.process_name = other.process_name
  /\ self.package_name = other.package_name
  /\ self.publisher_node = other.publisher_node

\* impl PartialEq<&str> for ProcessId:  &self.to_string() == other
ProcessId_eq_str(self, other) == ProcessId_to_string(self) = other

\* a comparison that parses the text and compares structurally
Str_eq_ProcessId_Parsed(self, other) ==
  LET r == ProcessId_from_str(self) IN
  r.ok /\ ProcessId_eq(r.val, other)

\* impl PartialEq<ProcessId> for &str:  self == &other.to_string()
Str_eq_ProcessId(self, other) == self = ProcessId_to_string(other)

\* impl IntoProcessId for ProcessId / for &str
IntoProcessId_ProcessId(self) == Ok(self)
IntoProcessId_str(self) == ProcessId_from_str(self)

\* ------------------------------------------------------------------ Address

\* Address::new with the result of process.into_process_id()
Address_new(node, into_process_id) ==
  IF ~into_process_id.ok THEN Err(into_process_id.err)
  ELSE Ok([node |-> node, process |-> into_process_id.val])

\* a from_str that reports an absent second '@' item as a missing field
Address_from_str_NodeAsField(input) ==
  LET name_rest == Split(input, "@") IN
  IF IsNone(NextSeg(name_rest, 2)) THEN Err("MissingField")
  ELSE LET r == ProcessId_from_str(Unwrap(NextSeg(name_rest, 2))) IN
       IF ~r.ok THEN Err(r.err)
       ELSE Ok([node |-> name_rest[1], process |-> r.val])

Address_from_str(input) ==
  LET name_rest == Split(input, "@") IN
  IF IsNone(NextSeg(name_rest, 1)) THEN Err("MissingField")
  ELSE IF IsNone(NextSeg(name_rest, 2)) THEN Err("MissingNodeId")
  ELSE LET segments == Split(Unwrap(NextSeg(name_rest, 2)), ":") IN
       IF IsNone(NextSeg(segments, 1)) THEN Err("MissingField")
       ELSE IF IsNone(NextSeg(segments, 2)) THEN Err("MissingField")
       ELSE IF IsNone(NextSeg(segments, 3)) THEN Err("MissingField")
       ELSE IF IsSome(NextSeg(segments, 4)) THEN Err("TooManyColons")
       ELSE Ok([node |-> name_rest[1],
                process |-> [process_name |-> segments[1],
                             package_name |-> segments[2],
                             publisher_node |-> segments[3]]])

Address_to_string(self) ==
  Join(<<self.node, ProcessId_to_string(self.process)>>, "@")

\* ------------------------------------------------------------------ state

VARIABLES
  idX,    \* Option: the identity built by a new(...), [kind, val]
  idS,    \* Option: a text, the canonical form of idX or a raw input
  idY,    \* Option: the outcome of a from_str on idS, [kind, res]
  idCmp   \* Option: a ProcessId / text comparison, [t, l, r]

idVars == <<idX, idS, idY, idCmp>>

VARIABLES
  pc,       \* where the process is: "idle" (in receive), "handling", "awaiting"
  msg,      \* Option: the Message being handled
  acc,      \* Option: the last accessor call on msg, [fn, out]
  bld,      \* Option: the builder value in hand, [b, live]; live is FALSE once moved
  ret,      \* Option: the last return of a builder call that can fail, [op, res]
  answer,   \* Option: what the host call send_and_await_response last returned
  outbox,   \* the send_request / send_response calls the transport holds
  pending   \* the send_and_await_response calls the transport has not answered

msgVars == <<pc, msg, acc, bld, ret, answer, outbox, pending>>

VARIABLES
  idZ,      \* Option: the canonical form of the identity a from_str returned
  caller,   \* Option: the frame of the function suspended above the blocking
            \* host call, [fn, ...its arguments]
  lastReq,  \* Option: the last request handed over, [op, set, handed]: the
            \* context its builder held and the context the transport got
  hostBlob, \* Option: the blob the host holds, of the last message delivered
  kept,     \* Option: a Message the process retained, [message, blob]
  ord,      \* Option: one list of configuration calls sent in two orders
  caps,     \* the capability boundary and the last grant_messaging, a record
  vfs       \* Option: the return of the last file operation, [fn, res]

extVars == <<idZ, caller, lastReq, hostBlob, kept, ord, caps, vfs>>
vars == <<idX, idS, idY, idCmp, pc, msg, acc, bld, ret, answer, outbox, pending,
          idZ, caller, lastReq, hostBlob, kept, ord, caps, vfs>>

\* nothing granted and no grant_messaging called yet
NoCaps == [own |-> None, table |-> {}, log |-> <<>>, ret |-> None]

ExtInit ==
  /\ idZ = None /\ caller = None /\ lastReq = None /\ hostBlob = None
  /\ kept = None /\ ord = None /\ caps = NoCaps /\ vfs = None

\* to_string / from_str of the type named kind
ToStringOf(kind, val) ==
  IF kind = "PackageId" THEN PackageId_to_string(val)
  ELSE IF kind = "ProcessId" THEN ProcessId_to_string(val)
  ELSE Address_to_string(val)

FromStrOf(kind, input) ==
  IF kind = "PackageId" THEN PackageId_from_str(input)
  ELSE IF kind = "ProcessId" THEN ProcessId_from_str(input)
  ELSE Address_from_str(input)

Kinds == {"PackageId", "ProcessId", "Address"}

IdInit ==
  /\ idX = None
  /\ idS = None
  /\ idY = None
  /\ idCmp = None
  /\ pc = "idle" /\ msg = None /\ acc = None /\ bld = None /\ ret = None
  /\ answer = None /\ outbox = <<>> /\ pending = <<>>
  /\ ExtInit

\* PackageId::new(package_name, publisher_node)
PackageIdNew ==
  /\ IsNone(idX) /\ IsNone(idS)
  /\ \E a, b \in FieldTexts :
       idX' = Some([kind |-> "PackageId", val |-> PackageId_new(a, b)])
  /\ UNCHANGED <<idS, idY, idCmp>> /\ UNCHANGED msgVars /\ UNCHANGED extVars

\* ProcessId::new(process_name, package_name, publisher_node)
ProcessIdNew ==
  /\ IsNone(idX) /\ IsNone(idS)
  /\ \E a, b, c \in FieldTexts :
       idX' = Some([kind |-> "ProcessId", val |-> ProcessId_new(a, b, c)])
  /\ UNCHANGED <<idS, idY, idCmp>> /\ UNCHANGED msgVars /\ UNCHANGED extVars

\* Address::new(node, process) with process a ProcessId
AddressNew ==
  /\ IsNone(idX) /\ IsNone(idS)
  /\ \E n, a, b, c \in FieldTexts :
       LET r == Address_new(n, IntoProcessId_ProcessId(ProcessId_new(a, b, c))) IN
       /\ r.ok
       /\ idX' = Some([kind |-> "Address", val |-> r.val])
  /\ UNCHANGED <<idS, idY, idCmp>> /\ UNCHANGED msgVars /\ UNCHANGED extVars

\* Address::new(node, process) with process a &str; an Err builds nothing
AddressNewStr ==
  /\ IsNone(idX) /\ IsNone(idS)
  /\ \E n \in FieldTexts, t \in CmpTexts :
       LET r == Address_new(n, IntoProcessId_str(t)) IN
       /\ r.ok
       /\ idX' = Some([kind |-> "Address", val |-> r.val])
  /\ UNCHANGED <<idS, idY, idCmp>> /\ UNCHANGED msgVars /\ UNCHANGED extVars

\* x.to_string()
CallToString ==
  /\ IsSome(idX) /\ IsNone(idS) /\ IsNone(idCmp)
  /\ idS' = Some(ToStringOf(Unwrap(idX).kind, Unwrap(idX).val))
  /\ UNCHANGED <<idX, idY, idCmp>> /\ UNCHANGED msgVars /\ UNCHANGED extVars

\* a raw text arrives from outside
RawInput ==
  /\ IsNone(idX) /\ IsNone(idS)
  /\ \E t \in RawTexts : idS' = Some(t)
  /\ UNCHANGED <<idX, idY, idCmp>> /\ UNCHANGED msgVars /\ UNCHANGED extVars

\* PackageId::from_str / ProcessId::from_str / Address::from_str on the text
FromStr(kind) ==
  /\ IsSome(idS) /\ IsNone(idY)
  /\ idY' = Some([kind |-> kind, res |-> FromStrOf(kind, Unwrap(idS))])
  /\ UNCHANGED <<idX, idS, idCmp>> /\ UNCHANGED msgVars /\ UNCHANGED extVars

\* y.to_string() on the identity from_str returned
FormatParsed ==
  /\ IsSome(idY) /\ Unwrap(idY).res.ok /\ IsNone(idZ)
  /\ idZ' = Some(ToStringOf(Unwrap(idY).kind, Unwrap(idY).res.val))
  /\ UNCHANGED idVars /\ UNCHANGED msgVars
  /\ UNCHANGED <<caller, lastReq, hostBlob, kept, ord, caps, vfs>>

\* x == t and t == x for a ProcessId x and a text t
Compare ==
  /\ IsSome(idX) /\ Unwrap(idX).kind = "ProcessId"
  /\ IsNone(idS) /\ IsNone(idCmp)
  /\ \E t \in CmpTexts :
       idCmp' = Some([t |-> t,
                      l |-> ProcessId_eq_str(Unwrap(idX).val, t),
                      r |-> Str_eq_ProcessId(t, Unwrap(idX).val)])
  /\ UNCHANGED <<idX, idS, idY>> /\ UNCHANGED msgVars /\ UNCHANGED extVars

IdNext ==
  \/ PackageIdNew
  \/ ProcessIdNew
  \/ AddressNew
  \/ AddressNewStr
  \/ CallToString
  \/ RawInput
  \/ \E kind \in Kinds : FromStr(kind)
  \/ FormatParsed
  \/ Compare

SpecId == IdInit /\ [][IdNext]_vars

\* ------------------------------------------------------------------ messaging values

\* ()
Unit == [unit |-> TRUE]
\* anyhow::anyhow!(text)
Anyhow(text) == [anyhow |-> text]

\* the address of the filesystem driver and of a peer process
VfsAddress ==
  [node |-> <<"n">>, process |-> ProcessId_new(<<"v">>, <<"s">>, <<"u">>)]
PeerAddress ==
  [node |-> <<"m">>, process |-> ProcessId_new(<<"p">>, <<"s">>, <<"u">>)]

\* impl IntoAddress for Address / for &str
IntoAddress_Address(self) == Ok(self)
IntoAddress_str(self) == Address_from_str(self)

\* what a caller hands to Request::target: an Address, a well-formed text, a
\* text without '@'
TargetInputs ==
  { IntoAddress_Address(VfsAddress),
    IntoAddress_str(<<"n", "@", "v", ":", "s", ":", "u">>),
    IntoAddress_str(<<"n">>) }

Bodies == {<<1>>}
MetadataTexts == {<<"m">>}
MimeTexts == {<<"t">>}
BlobBytes == {<<9>>}
Contexts == {<<7>>}
Timeouts == {5}
Payloads == {[mime |-> None, bytes |-> b] : b \in BlobBytes}

\* ------------------------------------------------------------------ Request builder

Request_new ==
  [type |-> "Request", target |-> None, inherit |-> FALSE, timeout |-> None,
   ipc |-> None, metadata |-> None, payload |-> None, context |-> None]

Request_target(self, into_address) ==
  IF ~into_address.ok THEN Err(into_address.err)
  ELSE Ok([self EXCEPT !.target = Some(into_address.val)])

Request_inherit(self, inherit) == [self EXCEPT !.inherit = inherit]

Request_expects_response(self, timeout) == [self EXCEPT !.timeout = Some(timeout)]

Request_ipc_bytes(self, ipc) == [self EXCEPT !.ipc = Some(ipc)]

Request_metadata(self, metadata) == [self EXCEPT !.metadata = Some(metadata)]

Request_payload(self, payload) == [self EXCEPT !.payload = Some(payload)]

Request_payload_mime(self, mime) ==
  IF IsNone(self.payload)
  THEN [self EXCEPT !.payload = Some([mime |-> Some(mime), bytes |-> <<>>])]
  ELSE [self EXCEPT !.payload =
          Some([mime |-> Some(mime), bytes |-> Unwrap(self.payload).bytes])]

\* a payload_bytes that always starts a payload without mime
Request_payload_bytes_DropsMime(self, bytes) ==
  [self EXCEPT !.payload = Some([mime |-> None, bytes |-> bytes])]

Request_payload_bytes(self, bytes) ==
  IF IsNone(self.payload)
  THEN [self EXCEPT !.payload = Some([mime |-> None, bytes |-> bytes])]
  ELSE [self EXCEPT !.payload =
          Some([mime |-> Unwrap(self.payload).mime, bytes |-> bytes])]

Request_context_bytes(self, context) == [self EXCEPT !.context = Some(context)]

\* The effect of a terminal operation: the host calls it makes, in order
\* (handed), whether the process is then suspended inside a host call, and
\* the value returned when it returns at once (ret).

\* a send that hands the request over before it looks at the fields
Request_send_Unchecked(self) ==
  [handed |-> <<[import |-> "send_request",
                 target |-> self.target,
                 request |-> [inherit |-> self.inherit,
                              expects_response |-> self.timeout,
                              ipc |-> self.ipc,
                              metadata |-> self.metadata],
                 context |-> self.context,
                 payload |-> self.payload]>>,
   suspend |-> FALSE,
   ret |-> IF IsSome(self.target) /\ IsSome(self.ipc)
           THEN Some(Ok(Unit)) ELSE Some(Err(Anyhow("missing fields")))]

\* a send that leaves the context behind
Request_send_NoContext(self) ==
  IF IsSome(self.target) /\ IsSome(self.ipc)
  THEN [handed |-> <<[import |-> "send_request",
                      target |-> Unwrap(self.target),
                      request |-> [inherit |-> self.inherit,
                                   expects_response |-> self.timeout,
                                   ipc |-> Unwrap(self.ipc),
                                   metadata |-> self.metadata],
                      context |-> None,
                      payload |-> self.payload]>>,
        suspend |-> FALSE,
        ret |-> Some(Ok(Unit))]
  ELSE [handed |-> <<>>, suspend |-> FALSE,
        ret |-> Some(Err(Anyhow("missing fields")))]

Request_send(self) ==
  IF IsSome(self.target) /\ IsSome(self.ipc)
  THEN [handed |-> <<[import |-> "send_request",
                      target |-> Unwrap(self.target),
                      request |-> [inherit |-> self.inherit,
                                   expects_response |-> self.timeout,
                                   ipc |-> Unwrap(self.ipc),
                                   metadata |-> self.metadata],
                      context |-> self.context,
                      payload |-> self.payload]>>,
        suspend |-> FALSE,
        ret |-> Some(Ok(Unit))]
  ELSE [handed |-> <<>>, suspend |-> FALSE,
        ret |-> Some(Err(Anyhow("missing fields")))]

\* a send-and-await that hands the request over and returns without waiting
Request_send_and_await_response_NoWait(self, timeout) ==
  IF IsSome(self.target) /\ IsSome(self.ipc)
  THEN [handed |-> <<[import |-> "send_and_await_response",
                      target |-> Unwrap(self.target),
                      request |-> [inherit |-> self.inherit,
                                   expects_response |-> Some(timeout),
                                   ipc |-> Unwrap(self.ipc),
                                   metadata |-> self.metadata],
                      payload |-> self.payload]>>,
        suspend |-> FALSE,
        ret |-> Some(Ok(Err([kind |-> "Timeout"])))]
  ELSE [handed |-> <<>>, suspend |-> FALSE,
        ret |-> Some(Err(Anyhow("missing fields")))]

\* crate::send_and_await_response is a host call that returns only with the
\* answer: the process is suspended in it and ret comes with the answer
Request_send_and_await_response(self, timeout) ==
  IF IsSome(self.target) /\ IsSome(self.ipc)
  THEN [handed |-> <<[import |-> "send_and_await_response",
                      target |-> Unwrap(self.target),
                      request |-> [inherit |-> self.inherit,
                                   expects_response |-> Some(timeout),
                                   ipc |-> Unwrap(self.ipc),
                                   metadata |-> self.metadata],
                      payload |-> self.payload]>>,
        suspend |-> TRUE,
        ret |-> None]
  ELSE [handed |-> <<>>, suspend |-> FALSE,
        ret |-> Some(Err(Anyhow("missing fields")))]

\* a return that turns a SendError into a delivery of an empty Response
Request_send_and_await_response_ErrorAsEmpty(host_result) ==
  IF host_result.ok THEN Ok(host_result)
  ELSE Ok(Ok([source |-> VfsAddress,
              message |-> [kind |-> "Response",
                           resp |-> [inherit |-> FALSE, body |-> <<>>,
                                     metadata |-> None, capabilities |-> <<>>],
                           context |-> None]]))

\* Ok(crate::send_and_await_response(..)): what send_and_await_response
\* returns once the host call has returned host_result
Request_send_and_await_response_return(host_result) == Ok(host_result)

\* an unpack that takes whatever was delivered for a Response
Request_unpack_match_AnyMessage(result) ==
  IF ~result.ok THEN Err(result.err)
  ELSE IF ~result.val.ok THEN Ok(Err(result.val.err))
  ELSE LET source == result.val.val.source
           message == result.val.val.message
       IN Ok(Ok([source |-> source,
                 response |-> IF message.kind = "Response" THEN message.resp
                              ELSE message.req,
                 context |-> IF message.kind = "Response" THEN message.context
                             ELSE None]))

\* the match of send_and_await_response_unpack on what
\* self.send_and_await_response(timeout) returned
Request_unpack_match(result) ==
  IF ~result.ok THEN Err(result.err)
  ELSE IF ~result.val.ok THEN Ok(Err(result.val.err))
  ELSE LET source == result.val.val.source
           message == result.val.val.message
       IN IF message.kind = "Response"
          THEN Ok(Ok([source |-> source,
                      response |-> message.resp,
                      context |-> message.context]))
          ELSE Err(Anyhow("did not receive Response"))

\* send_and_await_response_unpack up to the host call: the effect of
\* self.send_and_await_response(timeout), a return at once going through the match
Request_send_and_await_response_unpack(self, timeout) ==
  LET e == Request_send_and_await_response(self, timeout) IN
  [e EXCEPT !.ret = IF IsSome(e.ret) THEN Some(Request_unpack_match(Unwrap(e.ret)))
                    ELSE None]

\* ------------------------------------------------------------------ Response builder

Response_new ==
  [type |-> "Response", inherit |-> FALSE, ipc |-> None, metadata |-> None,
   payload |-> None]

Response_inherit(self, inherit) == [self EXCEPT !.inherit = inherit]

Response_ipc_bytes(self, ipc) == [self EXCEPT !.ipc = Some(ipc)]

Response_metadata(self, metadata) == [self EXCEPT !.metadata = metadata]

Response_payload(self, payload) == [self EXCEPT !.payload = Some(payload)]

Response_payload_mime(self, mime) ==
  IF IsNone(self.payload)
  THEN [self EXCEPT !.payload = Some([mime |-> Some(mime), bytes |-> <<>>])]
  ELSE [self EXCEPT !.payload =
          Some([mime |-> Some(mime), bytes |-> Unwrap(self.payload).bytes])]

Response_payload_bytes(self, bytes) ==
  IF IsNone(self.payload)
  THEN [self EXCEPT !.payload = Some([mime |-> None, bytes |-> bytes])]
  ELSE [self EXCEPT !.payload =
          Some([mime |-> Unwrap(self.payload).mime, bytes |-> bytes])]

Response_send(self) ==
  IF IsSome(self.ipc)
  THEN [handed |-> <<[import |-> "send_response",
                      response |-> [inherit |-> self.inherit,
                                    ipc |-> Unwrap(self.ipc),
                                    metadata |-> self.metadata],
                      payload |-> self.payload]>>,
        suspend |-> FALSE,
        ret |-> Some(Ok(Unit))]
  ELSE [handed |-> <<>>, suspend |-> FALSE,
        ret |-> Some(Err(Anyhow("missing IPC")))]

\* ------------------------------------------------------------------ Message

\* the host's message: Request(req) or Response((resp, context))
WitRequest(expects_response, body, metadata) ==
  [kind |-> "Request",
   req |-> [inherit |-> FALSE, expects_response |-> expects_response,
            body |-> body, metadata |-> metadata, capabilities |-> <<>>]]

WitResponse(body, metadata, context) ==
  [kind |-> "Response",
   resp |-> [inherit |-> FALSE, body |-> body, metadata |-> metadata,
             capabilities |-> <<>>],
   context |-> context]

OptionOf(S) == {None} \cup {Some(v) : v \in S}

WitMessages ==
  {WitRequest(e, b, m) :
     e \in OptionOf(Timeouts), b \in Bodies \cup {<<>>}, m \in OptionOf(MetadataTexts)}
  \cup
  {WitResponse(b, m, c) :
     b \in Bodies \cup {<<>>}, m \in OptionOf(MetadataTexts), c \in OptionOf(Contexts)}

\* the messages a process receives while it also builds and sends
FewWitMessages ==
  { WitRequest(Some(5), <<1>>, None), WitResponse(<<1>>, None, Some(<<7>>)) }

\* _wit_message_to_message
WitMessageToMessage(source, message) ==
  IF message.kind = "Request"
  THEN [kind |-> "Request",
        source |-> source,
        expects_response |-> message.req.expects_response,
        body |-> message.req.body,
        metadata |-> message.req.metadata,
        capabilities |-> message.req.capabilities]
  ELSE [kind |-> "Response",
        source |-> source,
        body |-> message.resp.body,
        metadata |-> message.resp.metadata,
        context |-> message.context,
        capabilities |-> message.resp.capabilities]

Message_source(self) == self.source
Message_body(self) == self.body
Message_metadata(self) == self.metadata

\* a context() that answers for a Request with its body
Message_context_BodyForRequest(self) ==
  IF self.kind = "Request" THEN Some(self.body) ELSE self.context

Message_context(self) ==
  IF self.kind = "Request" THEN None ELSE self.context

Message_is_request(self) == self.kind = "Request"
Message_is_local(self, our) == self.source.node = our.node
Message_is_process(self, process) == ProcessId_eq(self.source.process, process)

\* ------------------------------------------------------------------ the process and the transport

\* calls the transport holds at most (sends wait for room)
MaxOutbox == 1
\* unanswered blocking calls the transport holds at most
MaxPending == 2

\* SendError
SendErrors == {[kind |-> "Timeout"], [kind |-> "Offline"]}

\* what the host call send_and_await_response returns:
\* Result<(Address, Message), SendError>
\* what may come with a message: no blob, or one of two blobs
Blobs == {None, Some(<<8>>), Some(<<9>>)}

Answers ==
  {Ok([source |-> VfsAddress, message |-> m]) :
     m \in FewWitMessages \cup {WitResponse(<<1>>, None, None)}}
  \cup {Err(e) : e \in SendErrors}

IsBlocking(call) == call.import = "send_and_await_response"
IsNonBlocking(call) == call.import # "send_and_await_response"

MsgInit ==
  /\ pc = "idle" /\ msg = None /\ acc = None /\ bld = None /\ ret = None
  /\ answer = None /\ outbox = <<>> /\ pending = <<>>

Init ==
  /\ idX = None /\ idS = None /\ idY = None /\ idCmp = None
  /\ MsgInit
  /\ ExtInit

\* the host delivers message from source to the process waiting in receive,
\* and holds the blob that came with it in place of the one it held
Deliver(source, message, blob) ==
  /\ pc = "idle"
  /\ pc' = "handling"
  /\ msg' = Some(WitMessageToMessage(source, message))
  /\ hostBlob' = blob
  /\ acc' = None /\ bld' = None /\ ret' = None /\ answer' = None
  /\ UNCHANGED <<outbox, pending>>
  /\ UNCHANGED idVars
  /\ UNCHANGED <<idZ, caller, kept, ord, caps, vfs>>

\* the process returns from receive with message from source; a Response to
\* a request still unanswered comes with ReplyArrives
Receive(source, message, blob) ==
  /\ Deliver(source, message, blob)
  /\ UNCHANGED lastReq

\* the handler returns and the process goes back to receive
HandlerDone ==
  /\ pc = "handling"
  /\ pc' = "idle"
  /\ msg' = None /\ acc' = None /\ bld' = None /\ ret' = None /\ answer' = None
  /\ UNCHANGED <<outbox, pending>>
  /\ UNCHANGED idVars /\ UNCHANGED extVars

\* an accessor call on the message being handled
Accessor(fn, out) ==
  /\ pc = "handling" /\ IsSome(msg)
  /\ acc' = Some([fn |-> fn, out |-> out])
  /\ UNCHANGED <<pc, msg, bld, ret, answer, outbox, pending>>
  /\ UNCHANGED idVars /\ UNCHANGED extVars

\* Message::blob: self is not read, the host is asked for the blob it holds
Message_blob(self, host_blob) == host_blob

\* .blob() on the message being handled
CallBlob ==
  Accessor("blob", [owned |-> hostBlob,
                    got |-> Message_blob(Unwrap(msg), hostBlob)])

\* the handler retains the Message value it is handling
Keep ==
  /\ pc = "handling" /\ IsSome(msg)
  /\ kept = None
  /\ kept' = Some([message |-> Unwrap(msg), blob |-> hostBlob])
  /\ UNCHANGED msgVars
  /\ UNCHANGED idVars
  /\ UNCHANGED <<idZ, caller, lastReq, hostBlob, ord, caps, vfs>>

\* .blob() on the Message value retained from an earlier receive
CallKeptBlob ==
  /\ IsSome(kept)
  /\ Accessor("blob", [owned |-> Unwrap(kept).blob,
                       got |-> Message_blob(Unwrap(kept).message, hostBlob)])

CallSource == Accessor("source", Message_source(Unwrap(msg)))
CallBody == Accessor("body", Message_body(Unwrap(msg)))
CallMetadata == Accessor("metadata", Message_metadata(Unwrap(msg)))
CallContext == Accessor("context", Message_context(Unwrap(msg)))
CallIsRequest == Accessor("is_request", Message_is_request(Unwrap(msg)))
CallIsLocal == Accessor("is_local", Message_is_local(Unwrap(msg), PeerAddress))
CallIsProcess ==
  Accessor("is_process", Message_is_process(Unwrap(msg), VfsAddress.process))

\* a builder of the named type is in hand
Holding(type) == pc = "handling" /\ IsSome(bld) /\ Unwrap(bld).type = type

\* a configuration call that cannot fail: the builder moves through it
Configure(b) ==
  /\ bld' = Some(b)
  /\ UNCHANGED <<pc, msg, acc, ret, answer, outbox, pending>>
  /\ UNCHANGED idVars /\ UNCHANGED extVars

\* Request::new()
ReqNew ==
  /\ pc = "handling" /\ Len(outbox) < MaxOutbox
  /\ bld' = Some(Request_new)
  /\ ret' = None /\ answer' = None /\ lastReq' = None
  /\ UNCHANGED <<pc, msg, acc, outbox, pending>>
  /\ UNCHANGED idVars
  /\ UNCHANGED <<idZ, caller, hostBlob, kept, ord, caps, vfs>>

\* .target(t): on a parse error the builder is gone and the error is returned
ReqTarget ==
  /\ Holding("Request")
  /\ \E t \in TargetInputs :
       LET r == Request_target(Unwrap(bld), t) IN
       IF r.ok
       THEN bld' = Some(r.val) /\ ret' = ret
       ELSE bld' = None /\ ret' = Some([op |-> "Request::target", res |-> r])
  /\ UNCHANGED <<pc, msg, acc, answer, outbox, pending>>
  /\ UNCHANGED idVars /\ UNCHANGED extVars

ReqInherit ==
  Holding("Request") /\ \E i \in BOOLEAN : Configure(Request_inherit(Unwrap(bld), i))
ReqExpectsResponse ==
  Holding("Request")
  /\ \E t \in Timeouts : Configure(Request_expects_response(Unwrap(bld), t))
ReqIpcBytes ==
  Holding("Request") /\ \E b \in Bodies : Configure(Request_ipc_bytes(Unwrap(bld), b))
ReqMetadata ==
  Holding("Request")
  /\ \E m \in MetadataTexts : Configure(Request_metadata(Unwrap(bld), m))
ReqPayload ==
  Holding("Request") /\ \E p \in Payloads : Configure(Request_payload(Unwrap(bld), p))
ReqPayloadMime ==
  Holding("Request")
  /\ \E m \in MimeTexts : Configure(Request_payload_mime(Unwrap(bld), m))
ReqPayloadBytes ==
  Holding("Request")
  /\ \E b \in BlobBytes : Configure(Request_payload_bytes(Unwrap(bld), b))
ReqContextBytes ==
  Holding("Request")
  /\ \E c \in Contexts : Configure(Request_context_bytes(Unwrap(bld), c))

\* the record of a request handed over by op: the context the builder b held
\* (set) and the one the transport got with the call (handed)
HandedOver(op, b, call) ==
  [op |-> op,
   target |-> IF "target" \in DOMAIN call THEN Some(call.target) ELSE None,
   expects |-> IF "request" \in DOMAIN call THEN call.request.expects_response
               ELSE None,
   set |-> IF b.type = "Request" THEN b.context ELSE None,
   handed |-> IF "context" \in DOMAIN call THEN call.context ELSE None]

\* a terminal operation op with effect eff: the builder is consumed, the
\* calls go to the transport, the process is suspended or gets its return
Terminal(op, eff) ==
  /\ Len(outbox) + Len(SelectSeq(eff.handed, IsNonBlocking)) <= MaxOutbox
  /\ Len(pending) + Len(SelectSeq(eff.handed, IsBlocking)) <= MaxPending
  /\ bld' = None
  /\ outbox' = outbox \o SelectSeq(eff.handed, IsNonBlocking)
  /\ pending' = pending \o SelectSeq(eff.handed, IsBlocking)
  /\ pc' = IF eff.suspend THEN "awaiting" ELSE pc
  /\ ret' = IF IsSome(eff.ret)
            THEN Some([op |-> op, res |-> Unwrap(eff.ret)])
            ELSE None
  /\ caller' = IF eff.suspend THEN Some([fn |-> op]) ELSE caller
  /\ lastReq' = IF eff.handed = <<>> THEN lastReq
                ELSE Some(HandedOver(op, Unwrap(bld), eff.handed[1]))
  /\ UNCHANGED <<msg, acc, answer>>
  /\ UNCHANGED idVars
  /\ UNCHANGED <<idZ, hostBlob, kept, ord, caps, vfs>>

\* .send()
ReqSend ==
  Holding("Request") /\ Terminal("Request::send", Request_send(Unwrap(bld)))

\* .send_and_await_response(timeout)
ReqSendAndAwait ==
  /\ Holding("Request")
  /\ \E t \in Timeouts :
       Terminal("Request::send_and_await_response",
                Request_send_and_await_response(Unwrap(bld), t))

\* .send_and_await_response_unpack(timeout)
ReqSendAndAwaitUnpack ==
  /\ Holding("Request")
  /\ \E t \in Timeouts :
       Terminal("Request::send_and_await_response_unpack",
                Request_send_and_await_response_unpack(Unwrap(bld), t))

\* Response::new()
RespNew ==
  /\ pc = "handling" /\ Len(outbox) < MaxOutbox
  /\ bld' = Some(Response_new)
  /\ ret' = None /\ answer' = None /\ lastReq' = None
  /\ UNCHANGED <<pc, msg, acc, outbox, pending>>
  /\ UNCHANGED idVars
  /\ UNCHANGED <<idZ, caller, hostBlob, kept, ord, caps, vfs>>

RespInherit ==
  Holding("Response") /\ \E i \in BOOLEAN : Configure(Response_inherit(Unwrap(bld), i))
RespIpcBytes ==
  Holding("Response") /\ \E b \in Bodies : Configure(Response_ipc_bytes(Unwrap(bld), b))
RespMetadata ==
  Holding("Response")
  /\ \E m \in OptionOf(MetadataTexts) : Configure(Response_metadata(Unwrap(bld), m))
RespPayload ==
  Holding("Response") /\ \E p \in Payloads : Configure(Response_payload(Unwrap(bld), p))
RespPayloadMime ==
  Holding("Response")
  /\ \E m \in MimeTexts : Configure(Response_payload_mime(Unwrap(bld), m))
RespPayloadBytes ==
  Holding("Response")
  /\ \E b \in BlobBytes : Configure(Response_payload_bytes(Unwrap(bld), b))

\* .send()
RespSend ==
  Holding("Response") /\ Terminal("Response::send", Response_send(Unwrap(bld)))

\* the transport routes the oldest call it holds
Route ==
  /\ outbox # <<>>
  /\ outbox' = Tail(outbox)
  /\ UNCHANGED <<pc, msg, acc, bld, ret, answer, pending>>
  /\ UNCHANGED idVars /\ UNCHANGED extVars

\* what the function suspended above the host call returns once the host
\* call has returned host_result
Returned(fn, host_result) ==
  IF fn = "Request::send_and_await_response"
  THEN Request_send_and_await_response_return(host_result)
  ELSE Request_unpack_match(Request_send_and_await_response_return(host_result))

\* the host call send_and_await_response returns with the correlated Response
\* or a SendError, and send_and_await_response returns to its caller
TransportReturn ==
  /\ pc = "awaiting" /\ pending # <<>>
  /\ IsSome(caller)
  /\ Unwrap(caller).fn \in {"Request::send_and_await_response",
                            "Request::send_and_await_response_unpack"}
  /\ \E a \in Answers :
       /\ answer' = Some(a)
       /\ ret' = Some([op |-> Unwrap(caller).fn,
                       res |-> Returned(Unwrap(caller).fn, a)])
  /\ pending' = Tail(pending)
  /\ pc' = "handling"
  /\ caller' = None
  /\ UNCHANGED <<msg, acc, bld, outbox>>
  /\ UNCHANGED idVars
  /\ UNCHANGED <<idZ, lastReq, hostBlob, kept, ord, caps, vfs>>

\* the transport delivers the Response to the last request sent with send,
\* from its target, with the context it got with that request
ReplyArrives ==
  /\ IsSome(lastReq)
  /\ Unwrap(lastReq).op = "Request::send"
  /\ IsSome(Unwrap(lastReq).target)
  /\ IsSome(Unwrap(lastReq).expects)
  /\ \E b \in Bodies :
       Deliver(Unwrap(Unwrap(lastReq).target),
               WitResponse(b, None, Unwrap(lastReq).handed), None)
  /\ lastReq' = None

Next ==
  \/ \E m \in FewWitMessages : Receive(PeerAddress, m, None)
  \/ HandlerDone
  \/ ReqNew
  \/ ReqTarget
  \/ ReqInherit
  \/ ReqExpectsResponse
  \/ ReqIpcBytes
  \/ ReqMetadata
  \/ ReqPayload
  \/ ReqPayloadMime
  \/ ReqPayloadBytes
  \/ ReqContextBytes
  \/ ReqSend
  \/ ReqSendAndAwait
  \/ ReqSendAndAwaitUnpack
  \/ RespNew
  \/ RespInherit
  \/ RespIpcBytes
  \/ RespMetadata
  \/ RespPayload
  \/ RespPayloadMime
  \/ RespPayloadBytes
  \/ RespSend
  \/ Route
  \/ TransportReturn
  \/ ReplyArrives

\* a process that builds and sends while it handles messages
Spec == Init /\ [][Next]_vars

MsgNext ==
  \/ \E s \in {VfsAddress, PeerAddress}, m \in WitMessages, p \in Blobs :
       Receive(s, m, p)
  \/ Keep
  \/ CallBlob
  \/ CallKeptBlob
  \/ CallSource
  \/ CallBody
  \/ CallMetadata
  \/ CallContext
  \/ CallIsRequest
  \/ CallIsLocal
  \/ CallIsProcess
  \/ HandlerDone

\* a process that receives messages and reads them
SpecMsg == Init /\ [][MsgNext]_vars

\* ------------------------------------------------------------------ order of configuration

MaxCalls == 4

\* the builder after the configuration calls of the list, from position lo on;
\* a call is [fn, arg], the argument under the name of its type
RECURSIVE ApplyAll(_, _, _)
ApplyAll(self, calls, lo) ==
  IF lo > Len(calls) THEN self
  ELSE LET c == calls[lo]
           next ==
             CASE c.fn = "target" ->
                    Request_target(self, IntoAddress_Address(c.arg.address)).val
               [] c.fn = "inherit" -> Request_inherit(self, c.arg.bool)
               [] c.fn = "expects_response" ->
                    Request_expects_response(self, c.arg.u64)
               [] c.fn = "ipc_bytes" -> Request_ipc_bytes(self, c.arg.bytes)
               [] c.fn = "metadata" -> Request_metadata(self, c.arg.text)
               [] c.fn = "payload" -> Request_payload(self, c.arg.payload)
               [] c.fn = "payload_mime" -> Request_payload_mime(self, c.arg.text)
               [] c.fn = "payload_bytes" -> Request_payload_bytes(self, c.arg.bytes)
               [] c.fn = "context_bytes" -> Request_context_bytes(self, c.arg.bytes)
       IN ApplyAll(next, calls, lo + 1)

\* one more configuration call is put on the list
OrdConfigure ==
  /\ IF IsNone(ord) THEN TRUE
     ELSE Unwrap(ord).sent = <<>> /\ Len(Unwrap(ord).calls) < MaxCalls
  /\ \E c \in {[fn |-> "target", arg |-> [address |-> VfsAddress]],
               [fn |-> "inherit", arg |-> [bool |-> TRUE]],
               [fn |-> "inherit", arg |-> [bool |-> FALSE]],
               [fn |-> "expects_response", arg |-> [u64 |-> 5]],
               [fn |-> "ipc_bytes", arg |-> [bytes |-> <<1>>]],
               [fn |-> "metadata", arg |-> [text |-> <<"m">>]],
               [fn |-> "payload",
                arg |-> [payload |-> [mime |-> None, bytes |-> <<9>>]]],
               [fn |-> "payload_mime", arg |-> [text |-> <<"t">>]],
               [fn |-> "payload_bytes", arg |-> [bytes |-> <<8>>]],
               [fn |-> "context_bytes", arg |-> [bytes |-> <<7>>]]} :
       ord' = Some([calls |-> IF IsNone(ord) THEN <<c>>
                              ELSE Append(Unwrap(ord).calls, c),
                    swap |-> 0,
                    sent |-> <<>>])
  /\ UNCHANGED idVars /\ UNCHANGED msgVars
  /\ UNCHANGED <<idZ, caller, lastReq, hostBlob, kept, caps, vfs>>

\* Request::new(), the calls of the list, .send(): once in the order of the
\* list, once with the calls at swap and swap + 1 in the other order
OrdSend ==
  /\ IsSome(ord) /\ Unwrap(ord).sent = <<>>
  /\ LET calls == Unwrap(ord).calls IN
     \E i \in 1..(Len(calls) - 1) :
       LET other == [k \in 1..Len(calls) |->
                      IF k = i THEN calls[i + 1]
                      ELSE IF k = i + 1 THEN calls[i] ELSE calls[k]]
       IN ord' = Some([calls |-> calls,
                       swap |-> i,
                       sent |-> <<Request_send(ApplyAll(Request_new, calls, 1)),
                                  Request_send(ApplyAll(Request_new, other, 1))>>])
  /\ UNCHANGED idVars /\ UNCHANGED msgVars
  /\ UNCHANGED <<idZ, caller, lastReq, hostBlob, kept, caps, vfs>>

OrdNext ==
  \/ OrdConfigure
  \/ OrdSend

\* a process that configures one request in two orders
SpecOrd == Init /\ [][OrdNext]_vars

\* ------------------------------------------------------------------ file access

MaxBufLen == 2

\* the error kinds the driver reports
IoErrorKinds == {"NotFound", "PermissionDenied"}

\* VfsResponse
VfsResponses ==
  {[variant |-> "Ok"], [variant |-> "Read"], [variant |-> "SeekFrom", pos |-> 0]}
  \cup {[variant |-> "Err", e |-> k] : k \in IoErrorKinds}

\* serde_json::to_vec(&value)
to_vec(value) == [json |-> value]

\* serde_json::from_slice::<VfsResponse>(&bytes)
from_slice(bytes) ==
  IF "json" \in DOMAIN bytes /\ bytes.json \in VfsResponses
  THEN Ok(bytes.json)
  ELSE Err([serde |-> "invalid"])

\* Request::new().target(vfs).ipc(to_vec(&request)?).send_and_await_response(5)
VfsSend(request) ==
  Request_send_and_await_response(
    Request_ipc_bytes(
      Request_target(Request_new, IntoAddress_Address(VfsAddress)).val,
      to_vec(request)),
    5)

\* impl Display for PackageId: the canonical form
PackageId_Display(self) == PackageId_to_string(self)

\* a read that takes a Read response without payload for an empty file
File_read_EmptyWithoutPayload(self, result, payload) ==
  IF ~result.ok THEN Err(result.err)
  ELSE IF ~(result.val.ok /\ result.val.val.message.kind = "Response")
       THEN Err(Anyhow("vfs: unexpected message"))
  ELSE LET decoded == from_slice(result.val.val.message.resp.body) IN
       IF ~decoded.ok THEN Err(decoded.err)
       ELSE IF decoded.val.variant = "Read"
            THEN (IF IsSome(payload) THEN Ok(Unwrap(payload)) ELSE Ok(<<>>))
       ELSE IF decoded.val.variant = "Err" THEN Err([io |-> decoded.val.e])
       ELSE Err(Anyhow("vfs: unexpected response"))

\* File::read after its call returned result; payload is what get_payload() gives
File_read(self, result, payload) ==
  IF ~result.ok THEN Err(result.err)
  ELSE IF ~(result.val.ok /\ result.val.val.message.kind = "Response")
       THEN Err(Anyhow("vfs: unexpected message"))
  ELSE LET decoded == from_slice(result.val.val.message.resp.body) IN
       IF ~decoded.ok THEN Err(decoded.err)
       ELSE IF decoded.val.variant = "Read"
            THEN (IF IsSome(payload) THEN Ok(Unwrap(payload))
                  ELSE Err(Anyhow("vfs: no read payload")))
       ELSE IF decoded.val.variant = "Err" THEN Err([io |-> decoded.val.e])
       ELSE Err(Anyhow("vfs: unexpected response"))

\* File::read_into after its call returned: what it returns and the buffer
File_read_into(self, buffer, result, payload) ==
  LET data == File_read(self, result, payload) IN
  IF ~data.ok THEN [res |-> Err(data.err), buffer |-> buffer]
  ELSE LET len == IF Len(data.val) <= Len(buffer) THEN Len(data.val)
                  ELSE Len(buffer)
       IN [res |-> Ok(len),
           buffer |-> SubSeq(data.val, 1, len)
                      \o SubSeq(buffer, len + 1, Len(buffer))]

\* File::read_at after its call returned: as read_into
File_read_at(self, buffer, result, payload) ==
  LET data == File_read(self, result, payload) IN
  IF ~data.ok THEN [res |-> Err(data.err), buffer |-> buffer]
  ELSE LET len == IF Len(data.val) <= Len(buffer) THEN Len(data.val)
                  ELSE Len(buffer)
       IN [res |-> Ok(len),
           buffer |-> SubSeq(data.val, 1, len)
                      \o SubSeq(buffer, len + 1, Len(buffer))]

\* the match of create_drive, open_file, create_file: value on an Ok response
OnOk(value, result) ==
  IF ~result.ok THEN Err(result.err)
  ELSE IF ~(result.val.ok /\ result.val.val.message.kind = "Response")
       THEN Err(Anyhow("vfs: unexpected message"))
  ELSE LET decoded == from_slice(result.val.val.message.resp.body) IN
       IF ~decoded.ok THEN Err(decoded.err)
       ELSE IF decoded.val.variant = "Ok" THEN Ok(value)
       ELSE IF decoded.val.variant = "Err" THEN Err([io |-> decoded.val.e])
       ELSE Err(Anyhow("vfs: unexpected response"))

\* a path without the leading separator
create_drive_path_Relative(package_id, drive) ==
  PackageId_Display(package_id) \o <<"/">> \o drive

\* format!("/{}/{}", package_id, drive)
create_drive_path(package_id, drive) ==
  <<"/">> \o PackageId_Display(package_id) \o <<"/">> \o drive

\* create_drive after its call returned
create_drive(path, result) == OnOk(path, result)

\* an open_file that makes a handle of any response it can decode
open_file_AnyResponse(path, result) ==
  IF ~result.ok THEN Err(result.err)
  ELSE IF ~(result.val.ok /\ result.val.val.message.kind = "Response")
       THEN Err(Anyhow("vfs: unexpected message"))
  ELSE LET decoded == from_slice(result.val.val.message.resp.body) IN
       IF ~decoded.ok THEN Err(decoded.err) ELSE Ok([path |-> path])

\* open_file after its call returned: File { path }
open_file(path, result) == OnOk([path |-> path], result)

\* create_file after its call returned: File { path }
create_file(path, result) == OnOk([path |-> path], result)

\* what the function of frame returns, and the buffer it leaves, once its
\* blocking call has returned result
FileReturn(frame, result, payload) ==
  CASE frame.fn = "File::read" ->
         [res |-> File_read(frame.self, result, payload), buffer |-> <<>>]
    [] frame.fn = "File::read_into" ->
         File_read_into(frame.self, frame.buffer, result, payload)
    [] frame.fn = "File::read_at" ->
         File_read_at(frame.self, frame.buffer, result, payload)
    [] frame.fn = "create_drive" ->
         [res |-> create_drive(frame.path, result), buffer |-> <<>>]
    [] frame.fn = "open_file" ->
         [res |-> open_file(frame.path, result), buffer |-> <<>>]
    [] frame.fn = "create_file" ->
         [res |-> create_file(frame.path, result), buffer |-> <<>>]

Paths == {<<"f">>, <<"g">>}
Buffers == {[i \in 1..n |-> 0] : n \in 0..MaxBufLen}

\* the function of frame builds request, sends it to the driver and blocks
VfsCall(frame, request) ==
  /\ pc = "handling" /\ IsNone(bld) /\ pending = <<>>
  /\ LET eff == VfsSend(request) IN
     /\ pending' = pending \o eff.handed
     /\ pc' = IF eff.suspend THEN "awaiting" ELSE pc
     /\ caller' = IF eff.suspend THEN Some(frame) ELSE None
     /\ vfs' = Some([frame |-> frame, sent |-> eff.handed,
                     got |-> IF eff.suspend THEN None
                             ELSE Some(FileReturn(frame, Unwrap(eff.ret), hostBlob))])
  /\ answer' = None
  /\ UNCHANGED <<msg, acc, bld, ret, outbox>>
  /\ UNCHANGED idVars
  /\ UNCHANGED <<idZ, lastReq, hostBlob, kept, ord, caps>>

FileRead ==
  /\ pc = "handling"
  /\ \E self \in {[path |-> path] : path \in Paths} :
       VfsCall([fn |-> "File::read", self |-> self],
               [path |-> self.path, action |-> [variant |-> "Read"]])

FileReadInto ==
  /\ pc = "handling"
  /\ \E self \in {[path |-> path] : path \in Paths}, buffer \in Buffers :
       VfsCall([fn |-> "File::read_into", self |-> self, buffer |-> buffer],
               [path |-> self.path, action |-> [variant |-> "Read"]])

FileReadAt ==
  /\ pc = "handling"
  /\ \E self \in {[path |-> path] : path \in Paths}, buffer \in Buffers :
       VfsCall([fn |-> "File::read_at", self |-> self, buffer |-> buffer],
               [path |-> self.path,
                action |-> [variant |-> "ReadExact", length |-> Len(buffer)]])

CreateDrive ==
  /\ pc = "handling"
  /\ \E package_name \in FieldTexts, publisher_node \in FieldTexts, drive \in {<<"d">>} :
       LET package_id == PackageId_new(package_name, publisher_node)
           path == create_drive_path(package_id, drive)
       IN VfsCall([fn |-> "create_drive", package_id |-> package_id,
                   drive |-> drive, path |-> path],
                  [path |-> path, action |-> [variant |-> "CreateDrive"]])

OpenFile ==
  /\ pc = "handling"
  /\ \E path \in Paths, create \in BOOLEAN :
       VfsCall([fn |-> "open_file", path |-> path, create |-> create],
               [path |-> path,
                action |-> [variant |-> "OpenFile", create |-> create]])

CreateFile ==
  /\ pc = "handling"
  /\ \E path \in Paths :
       VfsCall([fn |-> "create_file", path |-> path],
               [path |-> path, action |-> [variant |-> "CreateFile"]])

\* what the transport may return for a call to the driver: a Response whose
\* body is a VfsResponse, one whose body is something else, a Request, a SendError
VfsAnswers ==
  {Ok([source |-> VfsAddress, message |-> WitResponse(to_vec(r), None, None)]) :
     r \in VfsResponses}
  \cup {Ok([source |-> VfsAddress,
            message |-> WitResponse(to_vec([path |-> <<"f">>]), None, None)]),
        Ok([source |-> VfsAddress,
            message |-> WitRequest(None, to_vec([variant |-> "Ok"]), None)])}
  \cup {Err(e) : e \in SendErrors}

\* the blocking call of a file function returns and the function finishes
DriverReturn ==
  /\ pc = "awaiting" /\ pending # <<>>
  /\ IsSome(caller) /\ IsSome(vfs)
  /\ \E a \in VfsAnswers, payload \in {None, Some(<<8>>), Some(<<8, 9>>)} :
       /\ answer' = Some(a)
       /\ hostBlob' = payload
       /\ vfs' = Some([Unwrap(vfs) EXCEPT !.got =
                         Some(FileReturn(Unwrap(caller),
                                         Request_send_and_await_response_return(a),
                                         payload))])
  /\ pending' = Tail(pending)
  /\ pc' = "handling"
  /\ caller' = None
  /\ UNCHANGED <<msg, acc, bld, ret, outbox>>
  /\ UNCHANGED idVars
  /\ UNCHANGED <<idZ, lastReq, kept, ord, caps>>

VfsNext ==
  \/ \E m \in FewWitMessages : Receive(PeerAddress, m, None)
  \/ HandlerDone
  \/ FileRead
  \/ FileReadInto
  \/ FileReadAt
  \/ CreateDrive
  \/ OpenFile
  \/ CreateFile
  \/ DriverReturn

\* a process that works on files of the driver
SpecVfs == Init /\ [][VfsNext]_vars

\* ------------------------------------------------------------------ capabilities

MaxTargets == 2

\* the address of the process itself
OurAddress == [node |-> <<"n">>, process |-> ProcessId_new(<<"o">>, <<"s">>, <<"u">>)]

\* the processes a capability may be shared with
Processes ==
  {VfsAddress.process, PeerAddress.process, ProcessId_new(<<"q">>, <<"s">>, <<"u">>)}

\* the capability to message address
MessagingCap(address) == [issuer |-> address, params |-> "\"messaging\""]

\* the lists of targets of at most n processes
TargetLists(n) == UNION {[1..k -> Processes] : k \in 0..n}

\* the share_capability calls of the loop over the positions lo..Len(grant_to)
RECURSIVE ShareFrom(_, _, _)
ShareFrom(grant_to, capability, lo) ==
  IF lo > Len(grant_to) THEN <<>>
  ELSE <<[process |-> grant_to[lo], capability |-> capability]>>
       \o ShareFrom(grant_to, capability, lo + 1)

\* a grant_messaging that shares with each process once, however often listed
grant_messaging_OncePerProcess(own, grant_to) ==
  IF IsNone(own)
  THEN [shares |-> <<>>,
        ret |-> Err(Anyhow("failed to get our own messaging capability!"))]
  ELSE [shares |->
          SelectSeq(ShareFrom(grant_to, Unwrap(own), 1),
                    LAMBDA c : c.process # VfsAddress.process)
          \o (IF \E i \in 1..Len(grant_to) : grant_to[i] = VfsAddress.process
              THEN <<[process |-> VfsAddress.process, capability |-> Unwrap(own)]>>
              ELSE <<>>),
        ret |-> Ok(Unit)]

\* grant_messaging, own being what get_capability(our, "messaging") returned:
\* the share_capability calls it makes, in order, and what it returns
grant_messaging(own, grant_to) ==
  IF IsNone(own)
  THEN [shares |-> <<>>,
        ret |-> Err(Anyhow("failed to get our own messaging capability!"))]
  ELSE [shares |-> ShareFrom(grant_to, Unwrap(own), 1),
        ret |-> Ok(Unit)]

\* the capability boundary gives the process the capability to message itself
BoundaryGrants ==
  /\ IsNone(caps.own)
  /\ caps' = [caps EXCEPT !.own = Some(MessagingCap(OurAddress))]
  /\ UNCHANGED idVars /\ UNCHANGED msgVars
  /\ UNCHANGED <<idZ, caller, lastReq, hostBlob, kept, ord, vfs>>

\* grant_messaging(&our, &grant_to); share_capability returns nothing, and
\* the boundary records the share at position i unless i is in failed
GrantMessaging ==
  /\ \E grant_to \in TargetLists(MaxTargets) :
       \E failed \in SUBSET (1..Len(grant_to)) :
         LET eff == grant_messaging(caps.own, grant_to) IN
         caps' = [own |-> caps.own,
                  table |-> caps.table \cup
                            {<<eff.shares[i].process, eff.shares[i].capability>> :
                               i \in (1..Len(eff.shares)) \ failed},
                  log |-> eff.shares,
                  ret |-> Some([op |-> "grant_messaging", res |-> eff.ret,
                                grant_to |-> grant_to, had |-> caps.own,
                                before |-> caps.table])]
  /\ UNCHANGED idVars /\ UNCHANGED msgVars
  /\ UNCHANGED <<idZ, caller, lastReq, hostBlob, kept, ord, vfs>>

CapNext ==
  \/ BoundaryGrants
  \/ GrantMessaging

\* a process that grants the capability to message it
SpecCap == Init /\ [][CapNext]_vars

\* ------------------------------------------------------------------ identity claims

\* the number of occurrences of c in the positions lo..hi of s
CountIn(s, c, lo, hi) == Cardinality({i \in lo..hi : s[i] = c})

\* the positions of '@' in s
AtPositions(s) == {i \in 1..Len(s) : s[i] = "@"}
Smallest(S) == CHOOSE i \in S : \A j \in S : i <= j

\* the colon-delimited segments of the process part of an address text: the
\* part after the first '@' and before the second one (or the end of the text)
ProcessPartSegments(s) ==
  LET first == Smallest(AtPositions(s))
      later == AtPositions(s) \ {first}
      stop == IF later = {} THEN Len(s) + 1 ELSE Smallest(later)
  IN CountIn(s, ":", first + 1, stop - 1) + 1

\* C1: for every PackageId, ProcessId and Address x built by new(...) from any
\* field texts, from_str(to_string(x)) succeeds and returns a value equal to x.
C1_RoundTrip ==
  (IsSome(idX) /\ IsSome(idS) /\ IsSome(idY)
     /\ Unwrap(idY).kind = Unwrap(idX).kind)
  => Unwrap(idY).res = Ok(Unwrap(idX).val)

\* C2: Address::from_str on a text without '@' fails with MissingNodeId,
\* whatever the rest of the text is.
C2_NoAtIsMissingNodeId ==
  (IsSome(idY) /\ Unwrap(idY).kind = "Address"
     /\ AtPositions(Unwrap(idS)) = {})
  => Unwrap(idY).res = Err("MissingNodeId")

C2_Witness ==
  /\ IsSome(idY) /\ Unwrap(idY).kind = "Address"
  /\ AtPositions(Unwrap(idS)) = {}
  /\ CountIn(Unwrap(idS), ":", 1, Len(Unwrap(idS))) = 2
  /\ Unwrap(idY).res = Err("MissingNodeId")

\* the outcome the segment count n of a text prescribes for a type of req segments
SegmentRule(res, n, req) ==
  /\ n < req => res = Err("MissingField")
  /\ n > req => res = Err("TooManyColons")
  /\ res.ok => n = req

\* C3: PackageId::from_str, ProcessId::from_str and the process part of
\* Address::from_str fail with MissingField on fewer colon-delimited segments
\* than required (2, 3, 3), fail with TooManyColons on more, and build an
\* identity only when the count is the required one.
C3_SegmentCount ==
  IsSome(idY) =>
    LET s == Unwrap(idS)
        res == Unwrap(idY).res
        kind == Unwrap(idY).kind
        colons == CountIn(s, ":", 1, Len(s))
    IN /\ kind = "PackageId" => SegmentRule(res, colons + 1, 2)
       /\ kind = "ProcessId" => SegmentRule(res, colons + 1, 3)
       /\ (kind = "Address" /\ AtPositions(s) # {})
            => SegmentRule(res, ProcessPartSegments(s), 3)

C3_Witness ==
  /\ IsSome(idY) /\ Unwrap(idY).kind = "ProcessId"
  /\ CountIn(Unwrap(idS), ":", 1, Len(Unwrap(idS))) = 1
  /\ Len(Unwrap(idS)) = 3
  /\ Unwrap(idY).res = Err("MissingField")

\* C4: for a ProcessId x and a text t, x == t and t == x give the same result,
\* which is true exactly when the canonical form of x is t, character for
\* character.
C4_CrossEqSymmetric ==
  IsSome(idCmp) =>
    LET x == Unwrap(idX).val
        c == Unwrap(idCmp)
        canonical == x.process_name \o <<":">> \o x.package_name
                       \o <<":">> \o x.publisher_node
    IN /\ c.l = c.r
       /\ c.l = (canonical = c.t)

C4_Witness ==
  /\ IsSome(idCmp)
  /\ Unwrap(idCmp).l /\ Unwrap(idCmp).r
  /\ Len(Unwrap(idCmp).t) = 3
  /\ Unwrap(idX).val.package_name = <<"a">>

\* ------------------------------------------------------------------ messaging claims

\* C5: context() of a Message of the Request variant is None whatever the
\* other fields are, also for a message that _wit_message_to_message made;
\* only a Response yields a present context.
C5_RequestHasNoContext ==
  (IsSome(acc) /\ Unwrap(acc).fn = "context" /\ IsSome(Unwrap(acc).out))
  => Unwrap(msg).kind = "Response"

C5_Witness ==
  /\ IsSome(acc) /\ Unwrap(acc).fn = "context"
  /\ Unwrap(msg).kind = "Request"
  /\ Unwrap(msg).body = <<1>>
  /\ IsSome(Unwrap(msg).metadata)
  /\ IsNone(Unwrap(acc).out)

\* a step in which a terminal operation consumes the builder in hand
TerminalStep ==
  /\ pc = "handling" /\ IsSome(bld) /\ bld' = None
  /\ pc' # "idle"
  /\ IsSome(ret') => Unwrap(ret').op # "Request::target"

\* nothing is handed to the transport and the process is not suspended
NothingHanded == outbox' = outbox /\ pending' = pending /\ pc' = pc

\* C6: a terminal send with a required field unset returns an error value and
\* hands nothing to the transport: Request::send and
\* Request::send_and_await_response return "missing fields" when target or
\* body is unset, Response::send returns "missing IPC" when body is unset.
C6_MissingFieldsError ==
  [][ TerminalStep =>
        LET b == Unwrap(bld) IN
        /\ (b.type = "Request" /\ (IsNone(b.target) \/ IsNone(b.ipc)))
             => /\ IsSome(ret')
                /\ Unwrap(ret').op \in {"Request::send",
                                        "Request::send_and_await_response",
                                        "Request::send_and_await_response_unpack"}
                /\ Unwrap(ret').res = Err(Anyhow("missing fields"))
                /\ NothingHanded
        /\ (b.type = "Response" /\ IsNone(b.ipc))
             => /\ IsSome(ret')
                /\ Unwrap(ret').op = "Response::send"
                /\ Unwrap(ret').res = Err(Anyhow("missing IPC"))
                /\ NothingHanded
    ]_vars

C6_Witness ==
  /\ IsSome(ret)
  /\ Unwrap(ret).op = "Request::send"
  /\ Unwrap(ret).res = Err(Anyhow("missing fields"))
  /\ outbox = <<>> /\ pending = <<>> /\ pc = "handling"

\* C7: with target and body set, Request::send hands exactly one request to
\* the transport, carrying the builder's inherit flag, expects-response
\* duration, body and metadata unmodified together with its context and
\* blob, and returns Ok at once: the process is not suspended and no answer
\* is consumed.
C7_SendHandsRequest ==
  [][ ( /\ TerminalStep
        /\ Unwrap(bld).type = "Request"
        /\ IsSome(Unwrap(bld).target) /\ IsSome(Unwrap(bld).ipc)
        /\ IsSome(ret') /\ Unwrap(ret').op = "Request::send" )
      => LET b == Unwrap(bld) IN
         /\ Unwrap(ret').res = Ok(Unit)
         /\ outbox' = Append(outbox,
                             [import |-> "send_request",
                              target |-> Unwrap(b.target),
                              request |-> [inherit |-> b.inherit,
                                           expects_response |-> b.timeout,
                                           ipc |-> Unwrap(b.ipc),
                                           metadata |-> b.metadata],
                              context |-> b.context,
                              payload |-> b.payload])
         /\ pending' = pending
         /\ pc' = "handling"
         /\ answer' = answer
    ]_vars

C7_Witness ==
  /\ IsSome(ret) /\ Unwrap(ret).op = "Request::send" /\ Unwrap(ret).res.ok
  /\ Len(outbox) = 1
  /\ outbox[1].import = "send_request"
  /\ outbox[1].context = Some(<<7>>)
  /\ IsSome(outbox[1].payload)
  /\ outbox[1].request.inherit
  /\ pc = "handling"

\* C8: while a blocking send-and-await is outstanding (handed to the
\* transport and not yet answered) the process takes no step: it handles no
\* other message, builds nothing and sends nothing.
C8_SuspendedTakesNoStep ==
  [][ (Len(pending) > 0 /\ Len(pending') >= Len(pending))
      => /\ UNCHANGED <<pc, msg, acc, bld, ret, answer>>
         /\ pending' = pending
         /\ Len(outbox') <= Len(outbox)
    ]_vars

C8_Witness ==
  /\ pc = "awaiting"
  /\ Len(pending) = 1
  /\ IsSome(msg) /\ Unwrap(msg).kind = "Request"

\* C9: the process has at most one outstanding blocking send-and-await call:
\* no second one is issued before the first has returned.
C9_OneOutstandingCall == Len(pending) <= 1

C9_Witness ==
  /\ Len(pending) = 1
  /\ pending[1].import = "send_and_await_response"
  /\ pending[1].target = VfsAddress
  /\ IsNone(pending[1].payload)
  /\ bld = None

\* the process leaves the suspension of a blocking call
Resumes == pc = "awaiting" /\ pc' # "awaiting"

\* C10: a blocking send-and-await with target and body set resumes once, on
\* the answer to its own call, and returns exactly that answer: the
\* responding Address with the delivered Message, or the SendError as a
\* value; a failure is never returned as a delivery nor a delivery as a
\* failure, and no answer reaches a process that is not suspended.
C10_ResumesOnceWithTheAnswer ==
  [][ /\ Resumes
        => /\ pc' = "handling"
           /\ pending' = Tail(pending)
           /\ IsSome(answer')
           /\ caller = Some([fn |-> "Request::send_and_await_response"])
                => ret' = Some([op |-> "Request::send_and_await_response",
                                res |-> Ok(Unwrap(answer'))])
      /\ (answer' # answer /\ IsSome(answer')) => Resumes
      /\ ( /\ ret' # ret /\ IsSome(ret')
           /\ Unwrap(ret').op = "Request::send_and_await_response"
           /\ Unwrap(ret').res.ok ) => Resumes
    ]_vars

C10_Witness ==
  /\ pc = "handling"
  /\ IsSome(ret) /\ Unwrap(ret).op = "Request::send_and_await_response"
  /\ Unwrap(ret).res = Ok(Err([kind |-> "Timeout"]))
  /\ answer = Some(Err([kind |-> "Timeout"]))
  /\ pending = <<>>

\* the blocking call that unpacks has returned after the host call did
UnpackReturned ==
  /\ IsSome(ret) /\ IsSome(answer)
  /\ Unwrap(ret).op = "Request::send_and_await_response_unpack"

\* C11: send_and_await_response_unpack returns the protocol error "did not
\* receive Response", which is neither a SendError nor the missing-fields
\* error, when the message delivered for its call is a Request; when it is a
\* Response it returns (source, response fields, context) exactly as
\* delivered; a SendError of the transport is returned unchanged.
C11_UnpackOnlyResponses ==
  UnpackReturned =>
    LET a == Unwrap(answer)
        r == Unwrap(ret).res
    IN /\ ~a.ok => r = Ok(Err(a.err))
       /\ (a.ok /\ a.val.message.kind = "Request")
            => /\ ~r.ok
               /\ r.err = Anyhow("did not receive Response")
               /\ r.err # Anyhow("missing fields")
       /\ (a.ok /\ a.val.message.kind = "Response")
            => r = Ok(Ok([source |-> a.val.source,
                          response |-> a.val.message.resp,
                          context |-> a.val.message.context]))

C11_Witness ==
  /\ UnpackReturned
  /\ Unwrap(answer).ok
  /\ Unwrap(answer).val.message.kind = "Request"
  /\ ~Unwrap(ret).res.ok

\* the step in which the Response to the last request sent with send arrives
ReplyStep == pc = "idle" /\ pc' = "handling" /\ IsSome(lastReq) /\ lastReq' = None

\* the answer to the blocking call is a Response
AnsweredByResponse ==
  /\ IsSome(answer') /\ Unwrap(answer').ok
  /\ Unwrap(answer').val.message.kind = "Response"

\* the context in what a blocking call returned for a Response
ReturnedContext(r) ==
  IF r.op = "Request::send_and_await_response_unpack"
  THEN r.res.val.val.context
  ELSE r.res.val.val.message.context

\* C12: the context a requester set on a Request is the context delivered
\* with the Response to that request, whichever terminal operation sent it:
\* with the Message received after send, or in what the blocking call returns.
C12_ContextEchoed ==
  [][ /\ (ReplyStep /\ IsSome(Unwrap(lastReq).set))
        => /\ Unwrap(msg').kind = "Response"
           /\ Unwrap(msg').context = Unwrap(lastReq).set
      /\ (Resumes /\ AnsweredByResponse /\ IsSome(lastReq)
             /\ IsSome(Unwrap(lastReq).set))
        => ReturnedContext(Unwrap(ret')) = Unwrap(lastReq).set
    ]_vars

\* the part of C12 the code keeps: the context set is echoed after send
C12_EchoedAfterSend ==
  [][ (ReplyStep /\ IsSome(Unwrap(lastReq).set))
        => /\ Unwrap(msg').kind = "Response"
           /\ Unwrap(msg').context = Unwrap(lastReq).set
    ]_vars

\* the blob() last called returned a blob
BlobGot ==
  /\ IsSome(acc) /\ Unwrap(acc).fn = "blob"
  /\ IsSome(Unwrap(acc).out.got)

\* C13: blob() called on a Message value never returns a blob that came with
\* another message: what it returns is the blob that Message arrived with.
C13_BlobOfOwnMessage ==
  BlobGot => Unwrap(acc).out.got = Unwrap(acc).out.owned

\* grant_messaging has been called
Granted == IsSome(caps.ret)

\* the process was stopped: no value was returned to the caller
IsFatal(r) == "panic" \in DOMAIN r

\* C14: grant_messaging called while the process's own "messaging" capability
\* is absent ends in a fatal error, not in an error value returned to the
\* caller, and shares no capability with any target.
C14_AbsentCapIsFatal ==
  (Granted /\ IsNone(Unwrap(caps.ret).had))
    => /\ IsFatal(Unwrap(caps.ret).res)
       /\ caps.log = <<>>
       /\ caps.table = Unwrap(caps.ret).before

\* the part of C14 the code keeps: nothing is shared when the capability is absent
C14_AbsentCapSharesNothing ==
  (Granted /\ IsNone(Unwrap(caps.ret).had))
    => /\ caps.log = <<>>
       /\ caps.table = Unwrap(caps.ret).before

\* C15: grant_messaging called while the own "messaging" capability is
\* present shares that one capability with every target in the order of the
\* list, one share per entry of the list; a share the boundary fails to
\* record undoes no other share, shares of earlier calls stay, and no
\* process outside the list gets or loses a capability.
C15_SharesWithEachTarget ==
  (Granted /\ IsSome(Unwrap(caps.ret).had))
    => LET r == Unwrap(caps.ret)
           cap == Unwrap(r.had)
       IN /\ r.res = Ok(Unit)
          /\ Len(caps.log) = Len(r.grant_to)
          /\ \A i \in 1..Len(r.grant_to) :
               caps.log[i] = [process |-> r.grant_to[i], capability |-> cap]
          /\ r.before \subseteq caps.table
          /\ \A e \in caps.table \ r.before :
               /\ e[2] = cap
               /\ \E i \in 1..Len(r.grant_to) : r.grant_to[i] = e[1]

\* two targets, the share with the first not recorded, the second recorded
C15_Witness ==
  /\ Granted
  /\ IsSome(Unwrap(caps.ret).had)
  /\ Len(caps.log) = 2
  /\ caps.log[1].process # caps.log[2].process
  /\ <<caps.log[1].process, caps.log[1].capability>> \notin caps.table
  /\ <<caps.log[2].process, caps.log[2].capability>> \in caps.table

\* a file function has returned after its blocking call did
Finished(fns) ==
  /\ IsSome(vfs) /\ IsSome(answer)
  /\ IsSome(Unwrap(vfs).got)
  /\ Unwrap(vfs).frame.fn \in fns

\* the call was answered by a Response of the driver whose body encodes r
DriverSaid(r) ==
  answer = Some(Ok([source |-> VfsAddress,
                    message |-> WitResponse(to_vec(r), None, None)]))

\* the function made one blocking call, to the driver, with path and action
OneRequest(path, action) ==
  LET sent == Unwrap(vfs).sent IN
  /\ Len(sent) = 1
  /\ sent[1].import = "send_and_await_response"
  /\ sent[1].target = VfsAddress
  /\ sent[1].request.expects_response = Some(5)
  /\ sent[1].request.ipc = to_vec([path |-> path, action |-> action])

\* C16: File::read, read_into and read_at make one blocking request to the
\* driver; on a Read response with a payload, read returns the payload's
\* bytes and read_into / read_at return the number of bytes copied, the
\* smaller of the two lengths, the buffer holding that many bytes of the
\* payload; on Read without payload they return the error "vfs: no read
\* payload"; on Err(kind) the error of that kind; in every other case an
\* error, and with an error the buffer is as it was.
C16_ReadReturnsThePayload ==
  Finished({"File::read", "File::read_into", "File::read_at"}) =>
    LET frame == Unwrap(vfs).frame
        out == Unwrap(Unwrap(vfs).got)
        before == IF frame.fn = "File::read" THEN <<>> ELSE frame.buffer
    IN /\ OneRequest(frame.self.path,
                     IF frame.fn = "File::read_at"
                     THEN [variant |-> "ReadExact", length |-> Len(frame.buffer)]
                     ELSE [variant |-> "Read"])
       /\ out.res.ok <=> (DriverSaid([variant |-> "Read"]) /\ IsSome(hostBlob))
       /\ (out.res.ok /\ frame.fn = "File::read")
            => out.res.val = Unwrap(hostBlob)
       /\ (out.res.ok /\ frame.fn # "File::read")
            => LET data == Unwrap(hostBlob)
                   n == out.res.val
               IN /\ n = IF Len(data) <= Len(before) THEN Len(data) ELSE Len(before)
                  /\ Len(out.buffer) = Len(before)
                  /\ \A i \in 1..Len(before) :
                       out.buffer[i] = IF i <= n THEN data[i] ELSE before[i]
       /\ (DriverSaid([variant |-> "Read"]) /\ IsNone(hostBlob))
            => out.res = Err(Anyhow("vfs: no read payload"))
       /\ \A k \in IoErrorKinds :
            DriverSaid([variant |-> "Err", e |-> k]) => out.res = Err([io |-> k])
       /\ ~out.res.ok => out.buffer = before

\* read_into with a buffer longer than the payload: part of it is filled
C16_Witness ==
  /\ Finished({"File::read_into"})
  /\ Unwrap(Unwrap(vfs).got).res = Ok(1)
  /\ Unwrap(Unwrap(vfs).got).buffer = <<8, 0>>

\* C17: open_file and create_file return a File exactly when the driver
\* answered Ok, and its path is the path asked for; on Err(kind) they return
\* the error of that kind; on any other response, a Request delivered, or a
\* SendError they return an error and no File.
C17_HandleIffOk ==
  Finished({"open_file", "create_file"}) =>
    LET frame == Unwrap(vfs).frame
        out == Unwrap(Unwrap(vfs).got)
    IN /\ OneRequest(frame.path,
                     IF frame.fn = "open_file"
                     THEN [variant |-> "OpenFile", create |-> frame.create]
                     ELSE [variant |-> "CreateFile"])
       /\ out.res.ok <=> DriverSaid([variant |-> "Ok"])
       /\ out.res.ok => out.res.val = [path |-> frame.path]
       /\ \A k \in IoErrorKinds :
            DriverSaid([variant |-> "Err", e |-> k]) => out.res = Err([io |-> k])

C17_Witness ==
  /\ Finished({"open_file"})
  /\ DriverSaid([variant |-> "Ok"])
  /\ Unwrap(Unwrap(vfs).got).res = Ok([path |-> <<"g">>])

\* C18: create_drive sends a CreateDrive action for the path "/", the
\* canonical form of the package identity, "/", the drive name; it returns
\* that path exactly when the driver answered Ok and an error otherwise.
C18_DrivePath ==
  Finished({"create_drive"}) =>
    LET frame == Unwrap(vfs).frame
        out == Unwrap(Unwrap(vfs).got)
        path == <<"/">> \o PackageId_to_string(frame.package_id)
                \o <<"/">> \o frame.drive
    IN /\ OneRequest(path, [variant |-> "CreateDrive"])
       /\ out.res.ok <=> DriverSaid([variant |-> "Ok"])
       /\ out.res.ok => out.res.val = path

C18_Witness ==
  /\ Finished({"create_drive"})
  /\ Unwrap(Unwrap(vfs).got).res = Ok(<<"/", "a", ":", "a", "/", "d">>)

\* C20: for every text s that from_str of PackageId, ProcessId or Address
\* accepts, to_string of the identity it returns is s: nothing of an accepted
\* text is dropped.
C20_ParseThenFormat ==
  IsSome(idZ) => Unwrap(idZ) = Unwrap(idS)

\* the same for PackageId and ProcessId only, where the code keeps it
C20_ParseThenFormatProcessId ==
  (IsSome(idZ) /\ Unwrap(idY).kind # "Address") => Unwrap(idZ) = Unwrap(idS)

\* the same list of calls was sent in two orders
SentTwice == IsSome(ord) /\ Unwrap(ord).sent # <<>>

\* C19: two sequences of configuration calls that hold the same calls with
\* the same arguments in a different order hand the same request, context
\* and blob to the transport at the terminal send.
C19_OrderIndependent ==
  SentTwice => Unwrap(ord).sent[1] = Unwrap(ord).sent[2]

\* the parts of the builder a configuration call writes
Writes(c) ==
  CASE c.fn = "payload" -> {"payload.mime", "payload.bytes"}
    [] c.fn = "payload_mime" -> {"payload.mime"}
    [] c.fn = "payload_bytes" -> {"payload.bytes"}
    [] OTHER -> {c.fn}

\* two different calls that write a common part
Conflict(c, d) ==
  /\ Writes(c) \cap Writes(d) # {}
  /\ c.fn = d.fn => c.arg # d.arg

\* no two calls of the list conflict
ConflictFree(calls) ==
  \A i, j \in 1..Len(calls) : ~Conflict(calls[i], calls[j])

\* C19 amended: the order of the configuration calls does not matter when no
\* two of them write the same part of the request with different calls.
C19_OrderIndependentWithoutConflict ==
  (SentTwice /\ ConflictFree(Unwrap(ord).calls))
    => Unwrap(ord).sent[1] = Unwrap(ord).sent[2]

\* payload_mime and payload_bytes in the two orders, the request handed over
C19_Witness ==
  /\ SentTwice
  /\ ConflictFree(Unwrap(ord).calls)
  /\ Unwrap(ord).sent[1].handed # <<>>
  /\ Unwrap(ord).swap = 3
  /\ Unwrap(ord).calls[3].fn = "payload_mime"
  /\ Unwrap(ord).calls[4].fn = "payload_bytes"
  /\ Unwrap(ord).sent[1] = Unwrap(ord).sent[2]

====
